---- MODULE Spec2Model ----
(***************************************************************************)
(* Model of controller.py: the `control` command, the asyncio session it   *)
(* runs, and the two tasks loop_update_led_matrix and loop_update_relay.   *)
(*                                                                         *)
(* Temperatures are integers counting fifths of a degree, so that the      *)
(* Fahrenheit conversion (c * 9 / 5) + 32 of an integral Celsius sample is *)
(* exact.  The asyncio event loop is modelled by its FIFO queue of ready   *)
(* handles: one step of the loop runs the handle at the head of the queue  *)
(* up to its next await, and nothing else runs in between.                 *)
(***************************************************************************)
EXTENDS Integers, Sequences, FiniteSets

\* ------------------------------------------------------------------ bounds

\* Number of relay-loop ticks explored (the loop itself is unbounded).
MaxTicks == 4

\* ------------------------------------------------------- program constants

\* Fifths of a degree per degree: the divisor of the conversion at line 95.
Scale == 5

\* random.randint(25, 45), line 98.
RandLow == 25

RandHigh == 45

Deg(d) == d * Scale

\* ------------------------------------------------------------ environment

\* Colours pushed to the Sense HAT (lines 59, 63, 67, 171).
Cold == "blue"

Hot == "red"

Nominal == "white"

Blank == "off"

\* Command lines the model explores (click options, lines 139-143): the
\* defaults, a narrow band below the simulated range, a Fahrenheit band, and
\* the three ways of failing the sanity checks.
Options ==
    { [temperature_lower |-> Deg(35), temperature_upper |-> Deg(40),
       update_interval |-> 60, use_fahrenheit |-> FALSE, verbose |-> FALSE],
      [temperature_lower |-> Deg(18), temperature_upper |-> Deg(22),
       update_interval |-> 1, use_fahrenheit |-> FALSE, verbose |-> TRUE],
      [temperature_lower |-> Deg(30), temperature_upper |-> Deg(95),
       update_interval |-> 60, use_fahrenheit |-> TRUE, verbose |-> TRUE],
      [temperature_lower |-> Deg(40), temperature_upper |-> Deg(35),
       update_interval |-> 60, use_fahrenheit |-> FALSE, verbose |-> FALSE],
      [temperature_lower |-> Deg(35), temperature_upper |-> Deg(35),
       update_interval |-> 60, use_fahrenheit |-> FALSE, verbose |-> TRUE],
      [temperature_lower |-> Deg(35), temperature_upper |-> Deg(40),
       update_interval |-> 0, use_fahrenheit |-> FALSE, verbose |-> FALSE] }

\* What SENSE.get_temperature() returns on successive ticks: the room's
\* temperature course, in degrees Celsius.
Course == <<15, 19, 23, 20>>

Feeds ==
    { [k \in 1..MaxTicks |-> Deg(Course[((k - 1 + off) % Len(Course)) + 1])] :
        off \in {0, 2} }

Readings == { Deg(d) : d \in RandLow..RandHigh }

\* ------------------------------------------------------------------ state

VARIABLES
    opts,                 \* the options `control` was called with
    feed,                 \* what the sensor port returns on successive reads
    pc,                   \* where `control` is: validate, run, except, finally, abort, exit
    session,              \* the session coroutine: new, await1, raised, cancelled
    ledTask,              \* task_1: none, created, sleeping, failed, cancelled
    relayTask,            \* task_2: none, created, running, sleeping, failed, cancelled
    ready,                \* the event loop's FIFO queue of ready handles
    CURRENT_TEMPERATURE,  \* the module global (fifths of a degree)
    relay,                \* relay.value of the gpiozero.OutputDevice
    display,              \* the colour the LED matrix shows; "untouched" before any write
    ports,                \* the ports used so far: relay, sensor, actuator, display
    last,                 \* the last observable action of the process
    sessionLog,           \* the session events echoed so far
    pending,              \* the exception propagating out of asyncio.run
    signal,               \* the signal delivered to the process
    exitStatus,           \* the process exit status; -1 while it runs
    relayPc,              \* the relay loop's next step: read, convert, random, decide
    decided,              \* the value the last completed relay tick decided on
    ledSlept,             \* the LED loop began a sleep after the relay loop's last one
    relayTicks,           \* completed iterations of the relay loop
    trace                 \* per completed relay tick: relay.value and the commands issued

vars ==
    << opts, feed, pc, session, ledTask, relayTask, ready, CURRENT_TEMPERATURE,
       relay, display, ports, last, sessionLog, pending, signal, exitStatus,
       relayPc, decided, ledSlept, relayTicks, trace >>

temperature_lower == opts.temperature_lower

temperature_upper == opts.temperature_upper

\* ---------------------------------------------------------- pure functions

\* Line 95: (CURRENT_TEMPERATURE * 9 / 5) + 32, on fifths of a degree.
Fahrenheit(c) == (c * 9) \div Scale + Deg(32)

\* Lines 93-95: the conversion of the sample to the configured unit.
Converted(sample, fahrenheit) == IF fahrenheit THEN Fahrenheit(sample) ELSE sample

\* An on command that does not look at the relay's state.
OnCommandUnguarded(t, lower, value) == t < lower

\* Line 115: whether relay.on() is called (and "Turning Relay On" echoed).
OnCommand(t, lower, value) == t < lower /\ value = 0

\* Line 120: whether relay.off() is called (and "Turning Relay Off" echoed).
OffCommand(t, upper, value) == t > upper /\ value = 1

\* An on test that switches on at the lower threshold already.
AfterOnAtThreshold(t, lower, value) == IF t <= lower /\ value = 0 THEN 1 ELSE value

\* Lines 115-118: relay.value after the first test of a tick.
AfterOn(t, lower, value) == IF OnCommand(t, lower, value) THEN 1 ELSE value

\* A second test that switches off at the upper threshold already.
AfterOffAtThreshold(t, upper, value) == IF t >= upper /\ value = 1 THEN 0 ELSE value

\* Lines 120-123: relay.value after the second test of a tick.
AfterOff(t, upper, value) == IF OffCommand(t, upper, value) THEN 0 ELSE value

\* A classification that counts the lower threshold itself as cold.
BandColourInclusive(t, lower, upper) ==
    IF t <= lower THEN Cold ELSE IF t > upper THEN Hot ELSE Nominal

\* Lines 57-67: the colour the LED matrix loop pushes.
BandColour(t, lower, upper) ==
    IF t < lower THEN Cold ELSE IF t > upper THEN Hot ELSE Nominal

\* asyncio.run's shutdown (_cancel_all_tasks): a task that has not finished
\* is cancelled.
Cancelled(task) ==
    IF task \in {"created", "running", "sleeping"} THEN "cancelled" ELSE task

InReady(h) == \E i \in 1..Len(ready) : ready[i] = h

Running(h) == pc = "run" /\ ready # << >> /\ Head(ready) = h

\* ------------------------------------------------------------------- init

Init ==
    /\ opts \in Options
    /\ feed \in Feeds
    /\ pc = "validate"
    /\ session = "new"
    /\ ledTask = "none"
    /\ relayTask = "none"
    /\ ready = << >>
    /\ CURRENT_TEMPERATURE = 0
    /\ relay = 0
    /\ display = "untouched"
    /\ ports = {}
    /\ last = "none"
    /\ sessionLog = {}
    /\ pending = "none"
    /\ signal = "none"
    /\ exitStatus = -1
    /\ relayPc = "read"
    /\ decided = 0
    /\ ledSlept = FALSE
    /\ relayTicks = 0
    /\ trace = << >>

\* ---------------------------------------------------------------- control

\* A sanity check that lets equal thresholds through.
SanityChecksInclusive(o) ==
    o.temperature_lower <= o.temperature_upper /\ o.update_interval > 0

\* A sanity check without the assert on the thresholds.
SanityChecksIntervalOnly(o) == o.update_interval > 0

\* Lines 147-148: the two asserts of `control`.
SanityChecks(o) ==
    o.temperature_lower < o.temperature_upper /\ o.update_interval > 0

\* Lines 144-161: the sanity checks, then asyncio.run(session(...)), which
\* schedules the session coroutine as the loop's first handle.  A failed
\* assert is raised outside the try statement: nothing catches it and the
\* interpreter exits with status 1.
Validate ==
    /\ pc = "validate"
    /\ IF SanityChecks(opts)
       THEN /\ pc' = "run"
            /\ ready' = << "session" >>
            /\ UNCHANGED << pending, exitStatus, last >>
       ELSE /\ pc' = "exit"
            /\ pending' = "AssertionError"
            /\ exitStatus' = 1
            /\ last' = "traceback"
            /\ ready' = ready
    /\ UNCHANGED << opts, feed, session, ledTask, relayTask, CURRENT_TEMPERATURE,
                    relay, display, ports, sessionLog, signal, relayPc, decided, ledSlept, relayTicks, trace >>

\* Lines 173-199: the session's first step, up to `await task_1`.
\* create_task appends each task's first step to the ready queue.
SessionStart ==
    /\ Running("session")
    /\ session = "new"
    /\ session' = "await1"
    /\ sessionLog' = IF opts.verbose THEN sessionLog \cup {"started"} ELSE sessionLog
    /\ last' = IF opts.verbose THEN "echo" ELSE last
    /\ ledTask' = "created"
    /\ relayTask' = "created"
    /\ ready' = Tail(ready) \o << "led", "relay" >>
    /\ UNCHANGED << opts, feed, pc, CURRENT_TEMPERATURE, relay, display, ports,
                    pending, signal, exitStatus, relayPc, decided, ledSlept, relayTicks, trace >>

\* Lines 199 and 153-161: `await task_1` resumes only when task_1 is done,
\* and `while True` lets it finish only by raising.  The exception leaves
\* the session, asyncio.run cancels what still runs and re-raises it.
\* Lines 200-204 are never reached.
SessionResume ==
    /\ Running("session")
    /\ session = "await1"
    /\ ledTask = "failed"
    /\ session' = "raised"
    /\ relayTask' = Cancelled(relayTask)
    /\ ready' = << >>
    /\ pending' = "Exception"
    /\ pc' = "except"
    /\ UNCHANGED << opts, feed, ledTask, CURRENT_TEMPERATURE, relay, display,
                    ports, last, sessionLog, signal, exitStatus, relayPc, decided, ledSlept, relayTicks, trace >>

\* Lines 163-166: the traceback is printed and the exception is dropped.
Except ==
    /\ pc = "except"
    /\ pc' = "finally"
    /\ pending' = "none"
    /\ last' = "traceback"
    /\ UNCHANGED << opts, feed, session, ledTask, relayTask, ready,
                    CURRENT_TEMPERATURE, relay, display, ports, sessionLog,
                    signal, exitStatus, relayPc, decided, ledSlept, relayTicks, trace >>

\* Lines 168-171: SENSE.clear().  `control` then returns (status 0), or the
\* KeyboardInterrupt goes on to click's main.
Finally ==
    /\ pc = "finally"
    /\ display' = Blank
    /\ ports' = ports \cup {"display"}
    /\ last' = "clear"
    /\ IF pending = "KeyboardInterrupt"
       THEN pc' = "abort" /\ exitStatus' = exitStatus
       ELSE pc' = "exit" /\ exitStatus' = 0
    /\ UNCHANGED << opts, feed, session, ledTask, relayTask, ready,
                    CURRENT_TEMPERATURE, relay, sessionLog, pending, signal,
                    relayPc, decided, ledSlept, relayTicks, trace >>

\* Line 171 when the display port raises: the exception leaves `control`
\* uncaught.
FinallyFault ==
    /\ pc = "finally"
    /\ ports' = ports \cup {"display"}
    /\ pending' = "Exception"
    /\ last' = "traceback"
    /\ pc' = "exit"
    /\ exitStatus' = 1
    /\ UNCHANGED << opts, feed, session, ledTask, relayTask, ready,
                    CURRENT_TEMPERATURE, relay, display, sessionLog, signal,
                    relayPc, decided, ledSlept, relayTicks, trace >>

\* Line 208: cli() is click's main, which answers a KeyboardInterrupt by
\* echoing "Aborted!" and exiting with status 1.
Abort ==
    /\ pc = "abort"
    /\ pc' = "exit"
    /\ last' = "aborted"
    /\ exitStatus' = 1
    /\ UNCHANGED << opts, feed, session, ledTask, relayTask, ready,
                    CURRENT_TEMPERATURE, relay, display, ports, sessionLog,
                    pending, signal, relayPc, decided, ledSlept, relayTicks, trace >>

\* ---------------------------------------------------------- LED matrix task

\* Lines 49-70: one iteration of the LED matrix loop, up to its sleep.
LedTick ==
    /\ Running("led")
    /\ display' = BandColour(CURRENT_TEMPERATURE, temperature_lower, temperature_upper)
    /\ ports' = ports \cup {"display"}
    /\ last' = "display"
    /\ ledTask' = "sleeping"
    /\ ledSlept' = TRUE
    /\ ready' = Tail(ready)
    /\ UNCHANGED << opts, feed, pc, session, relayTask, CURRENT_TEMPERATURE, relay,
                    sessionLog, pending, signal, exitStatus, relayPc, decided,
                    relayTicks, trace >>

\* Lines 57-67 when the display port raises: nothing in the loop catches
\* it, the task is done with an exception and whoever awaits it is woken.
LedFault ==
    /\ Running("led")
    /\ ports' = ports \cup {"display"}
    /\ last' = IF ledTask = "created" THEN "echo" ELSE last
    /\ ledTask' = "failed"
    /\ ready' = Tail(ready) \o (IF session = "await1" THEN << "session" >> ELSE << >>)
    /\ UNCHANGED << opts, feed, pc, session, relayTask, CURRENT_TEMPERATURE, relay,
                    display, sessionLog, pending, signal, exitStatus, relayPc, decided, ledSlept, relayTicks,
                    trace >>

\* Line 70: the sleep of the LED matrix loop is over.
WakeLed ==
    /\ pc = "run"
    /\ ledTask = "sleeping"
    /\ ~InReady("led")
    /\ ready' = Append(ready, "led")
    /\ UNCHANGED << opts, feed, pc, session, ledTask, relayTask,
                    CURRENT_TEMPERATURE, relay, display, ports, last, sessionLog,
                    pending, signal, exitStatus, relayPc, decided, ledSlept, relayTicks, trace >>

\* --------------------------------------------------------------- relay task

\* A relay loop that awaits between any two of its steps.
SuspendsEverywhere(at) == TRUE

\* Line 126: the relay loop's only await precedes the next read; the event
\* loop runs nothing else between the other steps of an iteration.
Suspends(at) == at = "read"

\* The relay handle after a step, with `at` as its next one: it keeps the
\* event loop, or it sleeps and leaves the ready queue.
Proceed(at) ==
    /\ relayPc' = at
    /\ IF Suspends(at)
       THEN /\ relayTask' = "sleeping"
            /\ ready' = Tail(ready)
            /\ ledSlept' = FALSE
       ELSE /\ relayTask' = "running"
            /\ ready' = ready
            /\ ledSlept' = ledSlept

\* Lines 74-90: the sensor is read into the global; the first time, after
\* the construction of the relay (line 80, initial_value=False).
RelayRead ==
    /\ Running("relay")
    /\ relayPc = "read"
    /\ relayTicks < MaxTicks
    /\ CURRENT_TEMPERATURE' = feed[relayTicks + 1]
    /\ ports' = ports \cup {"relay", "sensor"}
    /\ last' = IF relayTask = "created" THEN "echo" ELSE last
    /\ Proceed("convert")
    /\ UNCHANGED << opts, feed, pc, session, ledTask, relay, display, sessionLog,
                    pending, signal, exitStatus, decided, relayTicks, trace >>

\* Lines 92-95: the global is converted to Fahrenheit when asked for.
RelayConvert ==
    /\ Running("relay")
    /\ relayPc = "convert"
    /\ CURRENT_TEMPERATURE' = Converted(CURRENT_TEMPERATURE, opts.use_fahrenheit)
    /\ Proceed("random")
    /\ UNCHANGED << opts, feed, pc, session, ledTask, relay, display, ports, last,
                    sessionLog, pending, signal, exitStatus, decided, relayTicks,
                    trace >>

\* Lines 97-98: the global is replaced by random.randint(25, 45).
RelayRandom ==
    /\ Running("relay")
    /\ relayPc = "random"
    /\ \E rnd \in Readings : CURRENT_TEMPERATURE' = rnd
    /\ Proceed("decide")
    /\ UNCHANGED << opts, feed, pc, session, ledTask, relay, display, ports, last,
                    sessionLog, pending, signal, exitStatus, decided, relayTicks,
                    trace >>

\* Lines 100-126: the temperature is echoed, the relay is switched by the
\* two tests, and the loop sleeps: the iteration is complete.
RelayTick ==
    /\ Running("relay")
    /\ relayPc = "decide"
    /\ LET t   == CURRENT_TEMPERATURE
           on  == OnCommand(t, temperature_lower, relay)
           r1  == AfterOn(t, temperature_lower, relay)
           off == OffCommand(t, temperature_upper, r1)
           r2  == AfterOff(t, temperature_upper, r1)
       IN  /\ relay' = r2
           /\ ports' = ports \cup (IF on \/ off THEN {"actuator"} ELSE {})
           /\ trace' = Append(trace, [value |-> r2, on |-> on, off |-> off])
           /\ decided' = t
    /\ relayTicks' = relayTicks + 1
    /\ last' = "echo"
    /\ Proceed("read")
    /\ UNCHANGED << opts, feed, pc, session, ledTask, CURRENT_TEMPERATURE, display,
                    sessionLog, pending, signal, exitStatus >>

\* Lines 80, 90, 117 and 122 when a port raises: the relay cannot be
\* constructed, the sensor cannot be read, or a command fails (the pin may
\* or may not have switched).  Nothing in the loop catches it: the task is
\* done with an exception, which stays in the task until it is awaited.
RelayFault ==
    /\ Running("relay")
    /\ \/ /\ relayTask = "created"
          /\ ports' = ports \cup {"relay"}
          /\ last' = "echo"
          /\ UNCHANGED << relay, decided >>
       \/ /\ relayPc = "read"
          /\ ports' = ports \cup {"relay", "sensor"}
          /\ last' = IF relayTask = "created" THEN "echo" ELSE last
          /\ UNCHANGED << relay, decided >>
       \/ /\ relayPc = "decide"
          /\ \E done \in BOOLEAN :
               LET t  == CURRENT_TEMPERATURE
                   r1 == AfterOn(t, temperature_lower, relay)
                   r2 == AfterOff(t, temperature_upper, r1)
               IN  /\ r2 # relay
                   /\ relay' = IF done THEN r2 ELSE relay
          /\ ports' = ports \cup {"actuator"}
          /\ last' = "echo"
          /\ decided' = CURRENT_TEMPERATURE
    /\ relayTask' = "failed"
    /\ ready' = Tail(ready)
    /\ UNCHANGED << opts, feed, pc, session, ledTask, CURRENT_TEMPERATURE, display,
                    sessionLog, pending, signal, exitStatus, relayPc, ledSlept,
                    relayTicks, trace >>

\* Line 126: the sleep of the relay loop is over.  The loop's timers fire
\* in the order of their deadlines: the LED loop sleeps 1 second (line 184)
\* and the relay loop a whole number of seconds >= 1 (lines 141, 148), so a
\* sleep the LED loop began before the relay loop's is over first.
WakeRelay ==
    /\ pc = "run"
    /\ relayTask = "sleeping"
    /\ ~InReady("relay")
    /\ ledTask = "sleeping" => (ledSlept \/ InReady("led"))
    /\ relayTicks < MaxTicks
    /\ ready' = Append(ready, "relay")
    /\ UNCHANGED << opts, feed, pc, session, ledTask, relayTask,
                    CURRENT_TEMPERATURE, relay, display, ports, last, sessionLog,
                    pending, signal, exitStatus, relayPc, decided, ledSlept, relayTicks, trace >>

\* ------------------------------------------------------------------ signals

\* Lines 153-161 under SIGINT: the program installs no handler, so the
\* interrupt ends asyncio.run: the session and the tasks are cancelled and
\* KeyboardInterrupt is raised into `control`, which `except Exception` does
\* not catch.
Interrupt ==
    /\ pc = "run"
    /\ signal' = "SIGINT"
    /\ session' = "cancelled"
    /\ ledTask' = Cancelled(ledTask)
    /\ relayTask' = Cancelled(relayTask)
    /\ ready' = << >>
    /\ pending' = "KeyboardInterrupt"
    /\ pc' = "finally"
    /\ UNCHANGED << opts, feed, CURRENT_TEMPERATURE, relay, display, ports, last,
                    sessionLog, exitStatus, relayPc, decided, ledSlept, relayTicks, trace >>

\* Lines 206-208 under SIGTERM: the program installs no handler, so the
\* signal's default action ends the process at once.
Terminate ==
    /\ pc = "run"
    /\ signal' = "SIGTERM"
    /\ pc' = "exit"
    /\ exitStatus' = 128 + 15
    /\ UNCHANGED << opts, feed, session, ledTask, relayTask, ready,
                    CURRENT_TEMPERATURE, relay, display, ports, last, sessionLog,
                    pending, relayPc, decided, ledSlept, relayTicks, trace >>

\* ------------------------------------------------------------ specification

Next ==
    \/ Validate
    \/ SessionStart
    \/ SessionResume
    \/ Except
    \/ Finally
    \/ FinallyFault
    \/ Abort
    \/ LedTick
    \/ LedFault
    \/ WakeLed
    \/ RelayRead
    \/ RelayConvert
    \/ RelayRandom
    \/ RelayTick
    \/ RelayFault
    \/ WakeRelay
    \/ Interrupt
    \/ Terminate

Spec == Init /\ [][Next]_vars

\* The event loop runs every ready handle, every sleep ends, and `control`
\* runs on; faults and signals are the environment's and need not happen.
Fairness ==
    /\ WF_vars(Validate)
    /\ WF_vars(SessionStart)
    /\ WF_vars(SessionResume)
    /\ WF_vars(Except)
    /\ WF_vars(Finally)
    /\ WF_vars(Abort)
    /\ WF_vars(LedTick)
    /\ WF_vars(WakeLed)
    /\ WF_vars(RelayRead)
    /\ WF_vars(RelayConvert)
    /\ WF_vars(RelayRandom)
    /\ WF_vars(RelayTick)
    /\ WF_vars(WakeRelay)

FairSpec == Spec /\ Fairness

\* ------------------------------------------------------------------- claims

\* A step that completes an iteration of the relay loop.
RelayTicked == relayTicks' = relayTicks + 1

\* A step that completes an iteration of the LED matrix loop.
LedTicked == Running("led") /\ ready' = Tail(ready) /\ ledTask' = "sleeping"

TasksStarted == session # "new"

Exited == pc = "exit"

\* C1: in every completed tick of the relay loop, with r the value compared
\* against the thresholds: r < lower with the relay off switches it on,
\* r > upper with the relay on switches it off, and lower <= r <= upper
\* leaves the relay as it was, on or off.
C1_Hysteresis ==
    [][RelayTicked =>
         LET r == CURRENT_TEMPERATURE'
             inside == temperature_lower <= r /\ r <= temperature_upper
         IN  /\ temperature_lower < temperature_upper
             /\ (r < temperature_lower /\ relay = 0) => relay' = 1
             /\ (r > temperature_upper /\ relay = 1) => relay' = 0
             /\ (inside /\ relay = 1) => relay' = 1
             /\ (inside /\ relay = 0) => relay' = 0]_vars

\* C1 witness: a second tick whose reading is the upper threshold itself has
\* left the relay on.
C1_Witness ==
    /\ relayTicks >= 2
    /\ CURRENT_TEMPERATURE = temperature_upper
    /\ relay = 1
    /\ trace[relayTicks - 1].value = 1
    /\ ~trace[relayTicks].on /\ ~trace[relayTicks].off

\* C2: with lower = 18, upper = 22 and the sensor delivering 15, 19, 23, 20,
\* the relay is on, on, off, off after the four ticks, with one on command
\* (tick 1) and one off command (tick 3) and no other.
C2_Scenario ==
    ( /\ temperature_lower = Deg(18)
      /\ temperature_upper = Deg(22)
      /\ \A k \in 1..Len(Course) : k <= MaxTicks => feed[k] = Deg(Course[k]) )
    => \A k \in 1..Len(trace) :
         k <= Len(Course) =>
           /\ trace[k].value = << 1, 1, 0, 0 >>[k]
           /\ trace[k].on = (k = 1)
           /\ trace[k].off = (k = 3)

\* C3: every frame the LED matrix loop pushes is blue when the shared
\* temperature is below lower, red when it is above upper and white
\* otherwise, whatever the relay's state.
C3_BandColour ==
    [][LedTicked =>
         /\ CURRENT_TEMPERATURE < temperature_lower => display' = "blue"
         /\ CURRENT_TEMPERATURE > temperature_upper => display' = "red"
         /\ ( /\ temperature_lower <= CURRENT_TEMPERATURE
              /\ CURRENT_TEMPERATURE <= temperature_upper ) => display' = "white"]_vars

\* C3 witness: the nominal colour was pushed for a temperature equal to the
\* lower threshold while the relay was on.
C3_Witness ==
    /\ last = "display"
    /\ display = "white"
    /\ CURRENT_TEMPERATURE = temperature_lower
    /\ relay = 1
    /\ relayTicks >= 2

\* C4: once the process has exited after a termination signal delivered to
\* the running tasks, the join of both tasks has completed, i.e. the session
\* got past both awaits.
C4_SignalJoins == (Exited /\ TasksStarted /\ signal # "none") => session = "ended"

\* C5: a fault of the relay task leads to the process exiting.
C5_FaultEscalates == (relayTask = "failed") ~> Exited

\* C6: a display fault in the LED matrix loop never cancels the relay loop.
C6_DisplayFaultNonFatal ==
    (ledTask = "failed" /\ signal = "none") => relayTask # "cancelled"

\* C7: whenever the control command has ended after the tasks were started,
\* the display is blank and clearing it was the last observable action.
C7_ClearIsLast == (Exited /\ TasksStarted) => (display = Blank /\ last = "clear")

\* C8: with lower >= upper or a non-positive interval nothing is started:
\* no session, no task, no port is touched, and the process ends in error.
C8_ConfigError ==
    ~(opts.temperature_lower < opts.temperature_upper /\ opts.update_interval > 0) =>
        /\ pc \in {"validate", "exit"}
        /\ session = "new" /\ ledTask = "none" /\ relayTask = "none"
        /\ ports = {} /\ display = "untouched" /\ relayTicks = 0
        /\ Exited => (exitStatus # 0 /\ pending = "AssertionError")

\* C8 witness: the process has exited on equal thresholds.
C8_Witness ==
    /\ Exited
    /\ opts.temperature_lower = opts.temperature_upper
    /\ exitStatus = 1

\* C9: the exit status is 0 only if no fatal error ended the run: the
\* options passed the checks and no port fault was raised in a task.
C9_ExitStatus ==
    (Exited /\ exitStatus = 0) =>
        /\ opts.temperature_lower < opts.temperature_upper
        /\ opts.update_interval > 0
        /\ ledTask # "failed"
        /\ relayTask # "failed"

\* C10: a session that started has reached its orderly end (and echoed it
\* when verbose) by the time the process has exited.
C10_SessionEnded ==
    (Exited /\ TasksStarted) =>
        (session = "ended" /\ (opts.verbose => "ended" \in sessionLog))

\* The relay loop is suspended in its sleep after a completed iteration.
RelaySuspended == relayTask = "sleeping" /\ relayPc = "read" /\ relayTicks >= 1

\* C11: relay.value changes only in the deciding step of the relay loop:
\* to on only for a value strictly below lower, to off only for a value
\* strictly above upper; no other step changes it.
C11_OnlyOnCrossing ==
    [][relay' # relay =>
         /\ Running("relay") /\ relayPc = "decide"
         /\ relay' = 1 => CURRENT_TEMPERATURE < temperature_lower
         /\ relay' = 0 => CURRENT_TEMPERATURE > temperature_upper]_vars

\* C11 witness: a tick has just switched the relay off.
C11_Witness ==
    /\ RelaySuspended
    /\ trace[relayTicks].off
    /\ relay = 0
    /\ CURRENT_TEMPERATURE > temperature_upper

\* C12: only steps of the relay loop write CURRENT_TEMPERATURE, and the
\* value the LED matrix loop reads is the one the relay loop last decided
\* on (or the initial one), never the sample or its conversion.
C12_NoIntermediateRead ==
    [][/\ CURRENT_TEMPERATURE' # CURRENT_TEMPERATURE => Running("relay")
       /\ LedTicked => (relayTask # "running" /\ CURRENT_TEMPERATURE = decided)]_vars

\* C12 witness: the LED matrix loop has pushed a frame after two relay ticks
\* that converted their samples to Fahrenheit.
C12_Witness ==
    /\ last = "display"
    /\ opts.use_fahrenheit
    /\ relayTicks >= 2
    /\ CURRENT_TEMPERATURE = decided
    /\ decided # Converted(feed[relayTicks], TRUE)
    /\ decided # feed[relayTicks]

\* C13: the value a completed tick decided on is the sensor's sample of that
\* tick, converted to the configured unit.
C13_DecidesOnSample ==
    RelaySuspended => decided = Converted(feed[relayTicks], opts.use_fahrenheit)

\* C14: a band colour is on the display only if a relay tick has produced
\* the temperature it was classified from.
C14_RendersObservation == display \in {Cold, Hot, Nominal} => relayTicks >= 1

\* C15: relay.on() is called only while the relay is off and relay.off()
\* only while it is on, and a tick issues a command (and echoes it) exactly
\* when it changes the relay.
C15_CommandOnChange ==
    [][RelayTicked =>
         LET e  == trace'[Len(trace')]
             r1 == IF e.on THEN 1 ELSE relay
         IN  /\ e.on => relay = 0
             /\ e.off => r1 = 1
             /\ (e.on /\ ~e.off) => (relay = 0 /\ relay' = 1)
             /\ (e.off /\ ~e.on) => (relay = 1 /\ relay' = 0)
             /\ (~e.on /\ ~e.off) => relay' = relay]_vars

\* C15 witness: a tick with a value below lower found the relay on and
\* issued no command.
C15_Witness ==
    /\ RelaySuspended
    /\ relayTicks >= 2
    /\ decided < temperature_lower
    /\ trace[relayTicks - 1].value = 1
    /\ ~trace[relayTicks].on /\ ~trace[relayTicks].off
    /\ relay = 1

\* C16: no tick issues both commands, and while the relay loop sleeps after
\* a tick the relay is not off below lower nor on above upper.
C16_RelayAgrees ==
    /\ \A k \in 1..Len(trace) : ~(trace[k].on /\ trace[k].off)
    /\ RelaySuspended =>
         /\ ~(CURRENT_TEMPERATURE < temperature_lower /\ relay = 0)
         /\ ~(CURRENT_TEMPERATURE > temperature_upper /\ relay = 1)

\* C16 witness: the relay loop sleeps after a tick that switched the relay
\* on for a value below lower.
C16_Witness ==
    /\ RelaySuspended
    /\ trace[relayTicks].on
    /\ CURRENT_TEMPERATURE < temperature_lower
    /\ relay = 1

\* C17: after the first relay tick, a cold frame is on the display only
\* with the relay on and a hot frame only with the relay off.
C17_DisplayAgrees ==
    (relayTicks >= 1 /\ last = "display") =>
        /\ display = Cold => relay = 1
        /\ display = Hot => relay = 0

\* C18: the relay is off once the process has exited.
C18_RelayOffAtExit == (Exited /\ TasksStarted) => relay = 0

====
